---------------------------- MODULE Spec2Model ----------------------------
(***************************************************************************)
(* funkdigen2: generation of functional digraphs up to isomorphism.        *)
(*                                                                         *)
(* The module models src/main.rs: the isomorphism codes (Tree, Comp,       *)
(* Func), the minimal-rotation tests, merge/unmerge, the successor         *)
(* functions next_comp / next_part / next_func, the two generators and the *)
(* digraph6 printer.                                                       *)
(*                                                                         *)
(* Conventions.                                                            *)
(*  - A Vec is a sequence.  The source indexes from 0, TLA+ from 1: the     *)
(*    index variables l, r, i, j, k, h keep their source (0-based) values  *)
(*    and an access v[i] of the source is written v[i + 1].                *)
(*  - Option<T> is a sequence of length at most one: None is << >> and     *)
(*    Some(x) is << x >>.                                                  *)
(*  - u8 arithmetic is kept modulo 2^8.  usize arithmetic is modulo 2^64;  *)
(*    a usize value is kept as its two's-complement residue, so that the   *)
(*    residue -1 stands for 2^64 - 1 and a wrapping sum is the sum of the  *)
(*    residues.                                                            *)
(*  - An addition that overflows wraps in a build without overflow checks  *)
(*    (the release profile) and panics in a build with them (the dev       *)
(*    profile).  overflow_checks is the build's choice; a call that        *)
(*    panicked yields Panic, which every caller passes on.                 *)
(***************************************************************************)
EXTENDS Integers, Sequences, FiniteSets, Bags, TLC

\* Bounds of the model
MaxN == 6
MaxComp == 6
MaxLen == 6
MaxSym == 3

\* Program constants
U8 == 256
MaxSize == 255

VARIABLES
    args_size,       \* ARGS.size: the number of vertices
    args_connected,  \* ARGS.connected
    args_lcs,        \* ARGS.lcs
    args_loopless,   \* ARGS.loopless
    overflow_checks, \* the build panics on integer overflow
    pc,              \* where main is: "start", "comps", "funcs", "done",
                     \* "panicked", or "idle"
    c,               \* generate_comps: the current component
    g,               \* generate_funcs: the current functional digraph
    count,           \* the generators' count
    out,             \* the codes handed to PRINT_FUNC so far, in order
    line,            \* what print_digraph6 computed for the last code
    iters,           \* executions of the loop body of next_comp in its last call
    np,              \* the last call of next_part by next_func
    rot,             \* a run of the two rotation tests on one slice
    asc,             \* a run of int_to_ascii on one vertex count
    lab              \* a run of merge / unmerge on one component

vars == << args_size, args_connected, args_lcs, args_loopless, overflow_checks,
           pc, c, g, count, out, line, iters, np, rot, asc, lab >>

None == << >>
Some(x) == << x >>
IsSome(o) == Len(o) = 1

\* What a call that panicked yields, in place of its value or of Some(value).
Panic == << << >>, << >> >>
IsPanic(o) == Len(o) = 2

Range(f) == { f[i] : i \in DOMAIN f }

--------------------------------------------------------------------------
\* Ord for Vec<u8>: lexicographic, a proper prefix is Less.
\* -1 is Less, 0 is Equal, 1 is Greater.
RECURSIVE cmp_from(_, _, _)
cmp_from(a, b, i) ==
    IF i > Len(a) /\ i > Len(b) THEN 0
    ELSE IF i > Len(a) THEN -1
    ELSE IF i > Len(b) THEN 1
    ELSE IF a[i] < b[i] THEN -1
    ELSE IF a[i] > b[i] THEN 1
    ELSE cmp_from(a, b, i + 1)

cmp(a, b) == cmp_from(a, b, 1)

\* is_sorted: for i in 0..s.len() - 1 { if s[i] > s[i + 1] return false }
RECURSIVE is_sorted_from(_, _)
is_sorted_from(s, i) ==
    IF i = Len(s) - 1 THEN TRUE
    ELSE IF cmp(s[i + 1], s[i + 2]) = 1 THEN FALSE
    ELSE is_sorted_from(s, i + 1)

is_sorted(s) == is_sorted_from(s, 0)

--------------------------------------------------------------------------
\* naive_is_min_rotation: r is the rotation, i the position compared.
RECURSIVE naive_from(_, _, _)
naive_from(s, r, i) ==
    IF r >= Len(s) THEN TRUE
    ELSE IF i >= Len(s) THEN naive_from(s, r + 1, 0)
    ELSE LET o == cmp(s[i + 1], s[((i + r) % Len(s)) + 1])
         IN  IF o = 1 THEN FALSE
             ELSE IF o = -1 THEN naive_from(s, r + 1, 0)
             ELSE naive_from(s, r, i + 1)

\* A faulty variant of naive_is_min_rotation: it compares first elements only.
naive_mut(s) ==
    \A r \in 1 .. Len(s) - 1 : cmp(s[1], s[(r % Len(s)) + 1]) # 1

naive_is_min_rotation(s) == naive_from(s, 1, 0)

\* i as usize: the residue of an i32 widened to usize (-1 is 2^64 - 1).
as_usize(i) == i

\* a + b on usize, wrapping: the residue of the sum.
wrapping_add(a, b) == a + b

\* a + b on usize reaches 2^64 (residues of small absolute value).
add_overflows(a, b) == (a < 0 /\ b < 0) \/ ((a < 0 \/ b < 0) /\ a + b >= 0)

\* k + i as usize + 1 panics: one of its two additions overflows in a build
\* that checks.
lcs_at_panics(k, i) ==
    /\ overflow_checks
    /\ \/ add_overflows(k, as_usize(i))
       \/ add_overflows(wrapping_add(k, as_usize(i)), 1)

\* s[(k + i as usize + 1) % n]
lcs_at(s, k, i) ==
    s[(wrapping_add(wrapping_add(k, as_usize(i)), 1) % Len(s)) + 1]

\* The while loop of lcs_is_min_rotation (lines 103-108): yields i and k,
\* or panics.
lcs_while_k(k, j, i, sj, sk) == IF cmp(sj, sk) = -1 THEN j - i - 1 ELSE k

RECURSIVE lcs_while(_, _, _, _, _), lcs_while_at(_, _, _, _, _, _, _)
lcs_while(s, f, k, j, i) ==
    IF i # -1
    THEN IF lcs_at_panics(k, i) THEN [i |-> i, k |-> k, panic |-> TRUE]
         ELSE lcs_while_at(s, f, k, j, i, s[(j % Len(s)) + 1], lcs_at(s, k, i))
    ELSE [i |-> i, k |-> k, panic |-> FALSE]

lcs_while_at(s, f, k, j, i, sj, sk) ==
    IF sj # sk
    THEN lcs_while(s, f, lcs_while_k(k, j, i, sj, sk), j, f[i])
    ELSE [i |-> i, k |-> k, panic |-> FALSE]

\* The for loop of lcs_is_min_rotation (lines 101-117): yields f and k, or
\* panics.  f is the failure function, indexed from 0.
\* lcs_store is lines 109-116 for the i and k the while loop left in w: the
\* new f and k.  lcs_body is the rest of the loop body after the while loop;
\* line 109 evaluates k + i as usize + 1 exactly when i = -1.
lcs_store(s, f, j, w, sj, sk) ==
    IF w.i = -1 /\ sj # sk
    THEN IF cmp(sj, sk) = -1
         THEN [f |-> [f EXCEPT ![j - j] = -1], k |-> j, panic |-> FALSE]
         ELSE [f |-> [f EXCEPT ![j - w.k] = -1], k |-> w.k, panic |-> FALSE]
    ELSE [f |-> [f EXCEPT ![j - w.k] = w.i + 1], k |-> w.k, panic |-> FALSE]

lcs_body(s, f, j, w) ==
    IF w.panic \/ (w.i = -1 /\ lcs_at_panics(w.k, w.i))
    THEN [f |-> f, k |-> w.k, panic |-> TRUE]
    ELSE lcs_store(s, f, j, w, s[(j % Len(s)) + 1], lcs_at(s, w.k, w.i))

RECURSIVE lcs_for(_, _, _)
lcs_for(s, fk, j) ==
    IF fk.panic \/ j >= 2 * Len(s) THEN fk
    ELSE lcs_for(s,
             lcs_body(s, fk.f, j,
                 lcs_while(s, fk.f, fk.k, j, fk.f[j - fk.k - 1])),
             j + 1)

\* The last line of lcs_is_min_rotation:
\* s[k..] == s[..n - k] && s[..k] == s[n - k..]
lcs_result(s, n, k) ==
    /\ SubSeq(s, k + 1, n) = SubSeq(s, 1, n - k)
    /\ SubSeq(s, 1, k) = SubSeq(s, n - k + 1, n)

\* What lcs_is_min_rotation yields once its for loop has left fk.
lcs_return(s, fk) ==
    IF fk.panic THEN Panic ELSE Some(lcs_result(s, Len(s), fk.k))

\* lcs_is_min_rotation: Some(its result), or Panic.
lcs_is_min_rotation(s) ==
    lcs_return(s,
        lcs_for(s, [f |-> [x \in 0 .. 2 * Len(s) - 1 |-> -1], k |-> 0,
                    panic |-> FALSE], 1))

\* IS_MIN_ROTATION: the test ARGS.lcs selects; Some(its result), or Panic.
IS_MIN_ROTATION(s) ==
    IF args_lcs THEN lcs_is_min_rotation(s) ELSE Some(naive_is_min_rotation(s))

--------------------------------------------------------------------------
\* The number of leading single-vertex trees of c, from position i on
\* (the loops at lines 128-131 and 157-159).
RECURSIVE skip_leaves(_, _)
skip_leaves(c0, i) ==
    IF i < Len(c0) /\ Len(c0[i + 1]) = 1 THEN skip_leaves(c0, i + 1) ELSE i

\* The subtrees of the root of t from position i on (lines 139-143):
\* t[i..i + t[i]], then i += t[i].
RECURSIVE subtrees(_, _)
subtrees(t, i) ==
    IF i < Len(t)
    THEN << SubSeq(t, i + 1, i + t[i + 1]) >> \o subtrees(t, i + t[i + 1])
    ELSE << >>

\* Lines 132-147 of unmerge, l being the position of the first tree of
\* more than one vertex and kids the subtrees of its root.
unmerge_at(c0, l, kids) ==
    Some([u |-> SubSeq(c0, 1, l) \o << <<1>> >> \o kids
                    \o SubSeq(c0, l + 2, Len(c0)),
          l |-> l,
          r |-> l + 1 + Len(kids)])

unmerge_from(c0, l) ==
    IF l = Len(c0) THEN None ELSE unmerge_at(c0, l, subtrees(c0[l + 1], 1))

\* unmerge: Some((u, l, r)) or None.
unmerge(c0) == unmerge_from(c0, skip_leaves(c0, 0))

\* A faulty variant of has_unmerge: it accepts every merge.
has_unmerge_any(c0, u) == TRUE

has_unmerge(c0, u) == u[skip_leaves(c0, 0) + 1][1] = 1

\* A faulty variant of merged_tree: it leaves the size t[0] of the root alone.
RECURSIVE merged_tree_unsized(_, _, _, _)
merged_tree_unsized(c0, t, i, r) ==
    IF i < r THEN merged_tree_unsized(c0, t \o c0[i + 1], i + 1, r) ELSE t

\* The tree built at lines 175-179 from t and c[i], ..., c[r - 1].
RECURSIVE merged_tree(_, _, _, _)
merged_tree(c0, t, i, r) ==
    IF i < r
    THEN merged_tree(c0,
             [t \o c0[i + 1] EXCEPT ![1] = (t[1] + Len(c0[i + 1])) % U8],
             i + 1, r)
    ELSE t

\* A faulty variant of merge_accepts: no rotation test, no has_unmerge test.
merge_accepts_any(m, c0) == Some(m)

\* Lines 184-187 of merge, m being the component built at lines 171-183 and
\* t what IS_MIN_ROTATION(&m) yields.
merge_checked(m, c0, t) ==
    IF IsPanic(t) THEN Panic
    ELSE IF ~t[1] \/ ~has_unmerge(m, c0) THEN None ELSE Some(m)

merge_accepts(m, c0) == merge_checked(m, c0, IS_MIN_ROTATION(m))

\* merge: Some(m) or None, or Panic.
merge(c0, l, r) ==
    IF Len(c0[l + 1]) # 1 \/ ~is_sorted(SubSeq(c0, l + 1, r)) THEN None
    ELSE merge_accepts(
             SubSeq(c0, 1, l) \o << merged_tree(c0, <<1>>, l + 1, r) >>
                 \o SubSeq(c0, r + 1, Len(c0)),
             c0)

\* if let Some(m) = o { return Some(m) } and otherwise what follows; a
\* panic in the call that gave o ends the caller too.
or_else(o, rest) == IF o # None THEN o ELSE rest

\* A faulty variant of next_merge: it never decreases l.
next_merge_fixed_l(c0, l, r) ==
    IF \E r1 \in r .. Len(c0) : IsSome(merge(c0, l, r1))
    THEN merge(c0, l, CHOOSE r1 \in r .. Len(c0) :
                          /\ IsSome(merge(c0, l, r1))
                          /\ \A r2 \in r .. r1 - 1 : ~IsSome(merge(c0, l, r2)))
    ELSE None

RECURSIVE next_merge(_, _, _)
next_merge(c0, l, r) ==
    IF r <= Len(c0)
    THEN or_else(merge(c0, l, r), next_merge(c0, l, r + 1))
    ELSE IF l = 0 THEN None
    ELSE next_merge(c0, l - 1, (l - 1) + 2)

\* The while-let loop of next_comp (lines 224-229); k counts the executions
\* of its body.  next_comp_body is the body for res = Some((u, l, r)), m
\* being next_merge(&u, l, r + 1).
RECURSIVE next_comp_loop(_, _), next_comp_body(_, _, _)
next_comp_loop(res, k) ==
    IF IsSome(res)
    THEN next_comp_body(next_merge(res[1].u, res[1].l, res[1].r + 1),
                        res[1].u, k)
    ELSE [m |-> None, iters |-> k]

next_comp_body(m, u, k) ==
    IF m # None THEN [m |-> m, iters |-> k + 1]
    ELSE next_comp_loop(unmerge(u), k + 1)

\* Lines 216-221 of next_comp, m being the result of the first next_merge
\* (None when c has fewer than 2 trees).
next_comp_first(m, c0) ==
    IF m # None THEN [m |-> m, iters |-> 0]
    ELSE next_comp_loop(unmerge(c0), 0)

\* next_comp with the count of the executions of its loop body.
next_comp_run(c0) ==
    next_comp_first(
        IF Len(c0) >= 2 THEN next_merge(c0, Len(c0) - 2, Len(c0)) ELSE None,
        c0)

next_comp(c0) == next_comp_run(c0).m

RECURSIVE comp_size_from(_, _)
comp_size_from(c0, i) ==
    IF i < Len(c0) THEN Len(c0[i + 1]) + comp_size_from(c0, i + 1) ELSE 0

comp_size(c0) == comp_size_from(c0, 0)

cycle(n) == [i \in 1 .. n |-> <<1>>]

--------------------------------------------------------------------------
RECURSIVE sum_u8(_, _)
sum_u8(p, i) ==
    IF i < Len(p) THEN (p[i + 1] + sum_u8(p, i + 1)) % U8 ELSE 0

sum_part(p) == sum_u8(p, 0)

\* The while loop of next_part (lines 305-311) and its result.
RECURSIVE next_part_loop(_, _, _, _)
next_part_loop(p, k, x, y) ==
    IF x <= y
    THEN next_part_loop([p EXCEPT ![k + 1] = x], k + 1, x, y - x)
    ELSE SubSeq([p EXCEPT ![k + 1] = (x + y) % U8], 1, k + 1)

\* A faulty variant of next_part: without the while loop of lines 305-309.
next_part_noloop(p) ==
    IF Len(p) <= 1 THEN None
    ELSE Some(SubSeq([p EXCEPT ![Len(p) - 1] = p[Len(p) - 1] + p[Len(p)]],
                     1, Len(p) - 1))

\* Lines 299-311 of next_part, q being p padded with zeros to length n and
\* k = p.len() - 1.
next_part_from(q, k) ==
    Some(next_part_loop(q, k - 1, (q[k] + 1) % U8, (q[k + 1] - 1) % U8))

next_part(p) ==
    IF Len(p) <= 1 THEN None
    ELSE next_part_from(p \o [i \in 1 .. sum_part(p) - Len(p) |-> 0],
                        Len(p) - 1)

part(g0) == [i \in 1 .. Len(g0) |-> comp_size(g0[i]) % U8]

loops(n) == [i \in 1 .. n |-> cycle(1)]

\* A faulty variant of reset_after: every component after h restarts from
\* its cycle.
reset_after_cycles(g0, h, d) ==
    [i \in 1 .. Len(g0) - (h + 1) |-> cycle(comp_size(g0[h + 1 + i]))]

\* The components pushed at lines 352-359 for i = h + 1 .. g.len() - 1.
reset_after(g0, h, d) ==
    [i \in 1 .. Len(g0) - (h + 1) |->
        IF comp_size(g0[h + 1 + i]) = comp_size(d) THEN d
        ELSE cycle(comp_size(g0[h + 1 + i]))]

\* The for loop of next_func (lines 347-362), h from g.len() - 1 down to 0;
\* next_func_at is its body, d being next_comp(&g[h]).
RECURSIVE next_func_from(_, _), next_func_at(_, _, _)
next_func_from(g0, h) ==
    IF h < 0 THEN None
    ELSE next_func_at(g0, h, next_comp(g0[h + 1]))

next_func_at(g0, h, d) ==
    IF IsSome(d)
    THEN Some(SubSeq(g0, 1, h) \o << d[1] >> \o reset_after(g0, h, d[1]))
    ELSE IF IsPanic(d) THEN Panic
    ELSE next_func_from(g0, h - 1)

\* Lines 363-370 of next_func, q being next_part(&p): the result and the
\* call of next_part.
next_func_part(p, q) ==
    [f |-> IF IsSome(q) THEN Some([i \in 1 .. Len(q[1]) |-> cycle(q[1][i])])
           ELSE None,
     np |-> [called |-> TRUE, p |-> p, q |-> q]]

next_func_tail(g0, p) == next_func_part(p, next_part(p))

\* next_func for f the result of its for loop.
next_func_end(g0, f) ==
    IF f # None THEN [f |-> f, np |-> [called |-> FALSE, p |-> << >>, q |-> None]]
    ELSE next_func_tail(g0, part(g0))

\* next_func, with the call of next_part it made (if any).
next_func_run(g0) == next_func_end(g0, next_func_from(g0, Len(g0) - 1))

next_func(g0) == next_func_run(g0).f

--------------------------------------------------------------------------
\* fill_tree_adj: a is the adjacency vector (indexed from 0 in the source),
\* i the root of the subtree, r its parent, b the name of the root of t.
\* fill_tree_loop is the while loop at lines 411-414.
RECURSIVE fill_tree_adj(_, _, _, _, _), fill_tree_loop(_, _, _, _, _)
fill_tree_adj(t, a, i, r, b) ==
    fill_tree_loop(t, [a EXCEPT ![i + 1] = (r + b) % U8], i, i + 1, b)

fill_tree_loop(t, a, i, j, b) ==
    IF j < i + t[i + 1]
    THEN fill_tree_loop(t, fill_tree_adj(t, a, j, i, b), i, j + t[j + 1], b)
    ELSE a

\* A faulty variant of tree_adj: every vertex of the tree points to its root.
tree_adj_flat(t, b) == [i \in 1 .. Len(t) |-> b % U8]

tree_adj(t, b) == fill_tree_adj(t, [i \in 1 .. Len(t) |-> 0], 0, 0, b)

\* a1[0] = v
set_root(a1, v) == [a1 EXCEPT ![1] = v % U8]

\* The for loop of comp_adj (lines 424-433).
RECURSIVE comp_adj_from(_, _, _, _)
comp_adj_from(c0, b, i, j) ==
    IF i < Len(c0)
    THEN set_root(tree_adj(c0[i + 1], b + j),
                  IF i < Len(c0) - 1 THEN b + j + Len(c0[i + 1]) ELSE b)
             \o comp_adj_from(c0, b, i + 1, j + Len(c0[i + 1]))
    ELSE << >>

comp_adj(c0, b) == comp_adj_from(c0, b, 0, 0)

\* The for loop of func_adj (lines 443-447); func_adj_body is its body for
\* a1 = comp_adj(&g[i], b).
RECURSIVE func_adj_from(_, _, _), func_adj_body(_, _, _, _)
func_adj_from(g0, b, i) ==
    IF i < Len(g0) THEN func_adj_body(g0, b, i, comp_adj(g0[i + 1], b))
    ELSE << >>

func_adj_body(g0, b, i, a1) == a1 \o func_adj_from(g0, b + Len(a1), i + 1)

func_adj(g0) == func_adj_from(g0, 0, 0)

\* adj_matrix: the rows of the matrix, concatenated.
adj_matrix(a) ==
    LET n == Len(a)
    IN  [x \in 1 .. n * n |->
            LET i == (x - 1) \div n
                j == (x - 1) % n
            IN  (~args_loopless \/ i # j) /\ a[i + 1] = j % U8]

\* The for loop of bits_to_ascii (lines 475-481): the value of 6 bits.
RECURSIVE six_bits(_, _, _, _)
six_bits(x, j, hi, n) ==
    IF j < hi
    THEN six_bits(x, j + 1, hi,
             IF j < Len(x) THEN (2 * n + (IF x[j + 1] THEN 1 ELSE 0)) % U8
             ELSE (2 * n) % U8)
    ELSE n

\* bits_to_ascii: the characters of the string, as their codes.
RECURSIVE bits_to_ascii_from(_, _)
bits_to_ascii_from(x, i) ==
    IF i < Len(x)
    THEN << (six_bits(x, i, i + 6, 0) + 63) % U8 >> \o bits_to_ascii_from(x, i + 6)
    ELSE << >>

bits_to_ascii(x) == bits_to_ascii_from(x, 0)

\* The bits pushed at lines 499-502, least significant first.
RECURSIVE low_bits(_, _)
low_bits(n, k) ==
    IF k = 0 THEN << >>
    ELSE << n % 2 = 1 >> \o low_bits(n \div 2, k - 1)

reverse(b) == [i \in 1 .. Len(b) |-> b[Len(b) + 1 - i]]

\* int_to_ascii: the characters of the string, as their codes.
int_to_ascii(n) ==
    IF n < 63 THEN << ((n % U8) + 63) % U8 >>
    ELSE bits_to_ascii(reverse(low_bits(n, 18)))

\* print_digraph6: the adjacency vector, the matrix and the line printed
\* ("&" is character 38).
print_matrix(a, m) ==
    [adj |-> a, matrix |-> m,
     text |-> << 38 >> \o int_to_ascii(Len(a)) \o bits_to_ascii(m)]

print_adj(a) == print_matrix(a, adj_matrix(a))

print_digraph6(g0) == print_adj(func_adj(g0))

--------------------------------------------------------------------------
\* The program: main calls GENERATE(n), which is generate_comps or
\* generate_funcs; PRINT_FUNC is print_digraph6.

NoLine == [adj |-> << >>, matrix |-> << >>, text |-> << >>]
NoCall == [called |-> FALSE, p |-> << >>, q |-> None]
NoRot == [s |-> << >>, naive |-> None, lcs |-> None]
NoAsc == [n |-> 0, str |-> None]
NoLab == [phase |-> "idle", c |-> << >>, l |-> 0, r |-> 0, m |-> None,
          back |-> None, um |-> None, re |-> None, re1 |-> None,
          re1_in_range |-> FALSE]

Init ==
    /\ args_size \in 0 .. MaxN
    /\ args_connected \in BOOLEAN
    /\ args_lcs \in BOOLEAN
    /\ args_loopless \in BOOLEAN
    /\ overflow_checks \in BOOLEAN
    /\ pc = "start"
    /\ c = << >>
    /\ g = << >>
    /\ count = 0
    /\ out = << >>
    /\ line = NoLine
    /\ iters = 0
    /\ np = NoCall
    /\ rot = NoRot
    /\ asc = NoAsc
    /\ lab = NoLab

\* main up to the first iteration of the generator's loop.
main_start ==
    /\ pc = "start"
    /\ \/ /\ args_connected
          /\ args_size = 0
          /\ pc' = "done"
          /\ UNCHANGED << c, g, count >>
       \/ /\ args_connected
          /\ args_size # 0
          /\ c' = cycle(args_size)
          /\ count' = 1
          /\ pc' = "comps"
          /\ UNCHANGED g
       \/ /\ ~args_connected
          /\ g' = loops(args_size)
          /\ count' = 1
          /\ pc' = "funcs"
          /\ UNCHANGED c
    /\ UNCHANGED << args_size, args_connected, args_lcs, args_loopless,
                    overflow_checks, out, line, iters, np, rot, asc, lab >>

\* One iteration of the loop of generate_comps (lines 266-275).
comps_iteration(run) ==
    /\ out' = Append(out, << c >>)
    /\ line' = print_digraph6(<< c >>)
    /\ iters' = run.iters
    /\ IF IsSome(run.m)
       THEN /\ count' = count + 1
            /\ c' = run.m[1]
            /\ pc' = pc
       ELSE /\ pc' = IF IsPanic(run.m) THEN "panicked" ELSE "done"
            /\ UNCHANGED << c, count >>

generate_comps ==
    /\ pc = "comps"
    /\ comps_iteration(next_comp_run(c))
    /\ UNCHANGED << args_size, args_connected, args_lcs, args_loopless,
                    overflow_checks, g, np, rot, asc, lab >>

\* One iteration of the loop of generate_funcs (lines 380-388).
funcs_iteration(run) ==
    /\ out' = Append(out, g)
    /\ line' = print_digraph6(g)
    /\ np' = run.np
    /\ IF IsSome(run.f)
       THEN /\ count' = count + 1
            /\ g' = run.f[1]
            /\ pc' = pc
       ELSE /\ pc' = IF IsPanic(run.f) THEN "panicked" ELSE "done"
            /\ UNCHANGED << g, count >>

generate_funcs ==
    /\ pc = "funcs"
    /\ funcs_iteration(next_func_run(g))
    /\ UNCHANGED << args_size, args_connected, args_lcs, args_loopless,
                    overflow_checks, c, iters, rot, asc, lab >>

Next == main_start \/ generate_comps \/ generate_funcs

Spec == Init /\ [][Next]_vars

--------------------------------------------------------------------------
\* The rotation tests as pure functions, run on every slice of at most
\* MaxLen elements over MaxSym values of Vec<u8>.

Symbols == { << a >> : a \in 1 .. MaxSym }
Slices == UNION { [1 .. k -> Symbols] : k \in 0 .. MaxLen }

ProgIdle ==
    /\ args_size = 0
    /\ args_connected = FALSE
    /\ args_loopless = FALSE
    /\ pc = "idle"
    /\ c = << >>
    /\ g = << >>
    /\ count = 0
    /\ out = << >>
    /\ line = NoLine
    /\ iters = 0
    /\ np = NoCall

ProgVars == << args_size, args_connected, args_lcs, args_loopless,
               overflow_checks, pc, c, g, count, out, line, iters, np >>

InitRot ==
    /\ ProgIdle
    /\ args_lcs = FALSE
    /\ overflow_checks \in BOOLEAN
    /\ rot \in { [s |-> s0, naive |-> None, lcs |-> None] : s0 \in Slices }
    /\ asc = NoAsc
    /\ lab = NoLab

run_naive ==
    /\ rot.naive = None
    /\ rot' = [rot EXCEPT !.naive = Some(Some(naive_is_min_rotation(rot.s)))]
    /\ UNCHANGED << ProgVars, asc, lab >>

run_lcs ==
    /\ rot.lcs = None
    /\ rot' = [rot EXCEPT !.lcs = Some(lcs_is_min_rotation(rot.s))]
    /\ UNCHANGED << ProgVars, asc, lab >>

NextRot == run_naive \/ run_lcs

SpecRot == InitRot /\ [][NextRot]_vars

--------------------------------------------------------------------------
\* int_to_ascii as a pure function, run on every vertex count of a u8.

InitAscii ==
    /\ ProgIdle
    /\ args_lcs = FALSE
    /\ overflow_checks \in BOOLEAN
    /\ rot = NoRot
    /\ asc \in { [n |-> k, str |-> None] : k \in 0 .. MaxSize }
    /\ lab = NoLab

run_int_to_ascii ==
    /\ asc.str = None
    /\ asc' = [asc EXCEPT !.str = Some(int_to_ascii(asc.n))]
    /\ UNCHANGED << ProgVars, rot, lab >>

NextAscii == run_int_to_ascii

SpecAscii == InitAscii /\ [][NextAscii]_vars

--------------------------------------------------------------------------
\* Reference definitions, written from the meaning of the codes and not
\* from the program: valid tree codes, lexicographic order, minimal
\* rotations, canonical component codes.

RefMax == IF MaxN > MaxComp THEN MaxN ELSE MaxComp

\* a < b lexicographically, the elements compared by Lt.
LexLess(a, b, Lt(_, _)) ==
    \E i \in 1 .. Len(b) :
        /\ i <= Len(a) + 1
        /\ \A j \in 1 .. i - 1 : a[j] = b[j]
        /\ (i = Len(a) + 1 \/ Lt(a[i], b[i]))

IntLess(x, y) == x < y
TreeLess(t1, t2) == LexLess(t1, t2, IntLess)
TreeSeqLess(a, b) == LexLess(a, b, TreeLess)

Rotate(s, r) == [i \in 1 .. Len(s) |-> s[((i - 1 + r) % Len(s)) + 1]]

\* No rotation of s is smaller than s.
RefIsMinRotation(s) == \A r \in 1 .. Len(s) - 1 : ~TreeSeqLess(Rotate(s, r), s)

\* The positions (from 1) of the children of the root of t, when t splits
\* into subtrees: position 2, and after a child at p the position p + t[p].
RECURSIVE ChildPositions(_, _)
ChildPositions(t, p) ==
    IF p > Len(t) THEN {}
    ELSE IF t[p] < 1 \/ p + t[p] - 1 > Len(t) THEN {0}
    ELSE {p} \cup ChildPositions(t, p + t[p])

\* t is a valid tree code: its first element is its size, it splits into
\* the codes of the subtrees of the root, each valid, in nondecreasing order.
RECURSIVE IsValidTree(_)
IsValidTree(t) ==
    /\ Len(t) >= 1
    /\ t[1] = Len(t)
    /\ LET ps == ChildPositions(t, 2)
           kid(p) == SubSeq(t, p, p + t[p] - 1)
       IN  /\ 0 \notin ps
           /\ \A p \in ps : IsValidTree(kid(p))
           /\ \A p, q \in ps : p < q => ~TreeLess(kid(q), kid(p))

ValidTrees ==
    [k \in 1 .. RefMax |->
        { t \in { << k >> \o r : r \in [1 .. k - 1 -> 1 .. k - 1] } :
            IsValidTree(t) }]

\* The sequences of valid tree codes of n vertices in all.
ValidComps[n \in 0 .. RefMax] ==
    IF n = 0 THEN { << >> }
    ELSE UNION { { << t >> \o rest : t \in ValidTrees[j],
                                     rest \in ValidComps[n - j] } :
                 j \in 1 .. n }

\* The canonical component codes of n vertices.
CanonComps == [n \in 0 .. RefMax |-> { x \in ValidComps[n] : RefIsMinRotation(x) }]

--------------------------------------------------------------------------
\* merge and unmerge as pure functions, run on every sequence of valid tree
\* codes of at most MaxComp vertices.

LabComps == UNION { ValidComps[n] : n \in 1 .. MaxComp }

InitLab ==
    /\ ProgIdle
    /\ args_lcs \in BOOLEAN
    /\ overflow_checks \in BOOLEAN
    /\ rot = NoRot
    /\ asc = NoAsc
    /\ lab \in { [NoLab EXCEPT !.phase = "input", !.c = c0] : c0 \in LabComps }

\* merge(&c, l, r) for l + 2 <= r <= c.len()
run_merge ==
    /\ lab.phase = "input"
    /\ \E l \in 0 .. Len(lab.c) - 2 :
           \E r \in l + 2 .. Len(lab.c) :
               lab' = [lab EXCEPT !.phase = "merged", !.l = l, !.r = r,
                                  !.m = merge(lab.c, l, r)]
    /\ UNCHANGED << ProgVars, rot, asc >>

\* unmerge(&m) of the component m that merge returned
run_unmerge_merged ==
    /\ lab.phase = "merged"
    /\ IsSome(lab.m)
    /\ lab' = [lab EXCEPT !.phase = "merged_back", !.back = unmerge(lab.m[1])]
    /\ UNCHANGED << ProgVars, rot, asc >>

\* unmerge(&c)
run_unmerge ==
    /\ lab.phase = "input"
    /\ lab' = [lab EXCEPT !.phase = "unmerged", !.um = unmerge(lab.c)]
    /\ UNCHANGED << ProgVars, rot, asc >>

\* merge(&u, l, r) and merge(&u, l, r + 1) of the (u, l, r) that unmerge
\* returned; the second indexes u[l..r + 1] and panics when r + 1 > u.len().
remerge(x) ==
    lab' = [lab EXCEPT !.phase = "remerged",
                       !.re = merge(x.u, x.l, x.r),
                       !.re1_in_range = x.r + 1 <= Len(x.u),
                       !.re1 = IF x.r + 1 <= Len(x.u)
                               THEN merge(x.u, x.l, x.r + 1) ELSE Panic]

run_remerge ==
    /\ lab.phase = "unmerged"
    /\ IsSome(lab.um)
    /\ remerge(lab.um[1])
    /\ UNCHANGED << ProgVars, rot, asc >>

NextLab == run_merge \/ run_unmerge_merged \/ run_unmerge \/ run_remerge

SpecLab == InitLab /\ [][NextLab]_vars

--------------------------------------------------------------------------
\* More reference definitions: multisets of components, partitions, the
\* edges of the digraph a code stands for.

\* The multiset of the components of a digraph code.
BagOf(e) == [x \in Range(e) |-> Cardinality({ i \in DOMAIN e : e[i] = x })]

\* The multisets of canonical component codes of n vertices in all.
RefBags[n \in 0 .. RefMax] ==
    IF n = 0 THEN { EmptyBag }
    ELSE UNION { { b (+) SetToBag({ x }) : x \in CanonComps[j],
                                            b \in RefBags[n - j] } :
                 j \in 1 .. n }

RECURSIVE SumOf(_)
SumOf(p) == IF p = << >> THEN 0 ELSE p[1] + SumOf(Tail(p))

\* The number of vertices of a component code, of a digraph code.
SizeOfComp(x) == SumOf([i \in 1 .. Len(x) |-> Len(x[i])])
SizeOfFunc(e) == SumOf([i \in 1 .. Len(e) |-> SizeOfComp(e[i])])

\* The place of component x in the order of generation: the number of
\* next_comp steps from the cycle of its size to x (k counts them).
RECURSIVE GenRankFrom(_, _, _)
GenRankFrom(cur, x, k) ==
    IF cur = x THEN k
    ELSE IF IsSome(next_comp(cur)) THEN GenRankFrom(next_comp(cur)[1], x, k + 1)
    ELSE -1

GenRank(x) == GenRankFrom(cycle(SizeOfComp(x)), x, 0)

\* The partitions of n as nondecreasing sequences of parts >= lo.
AscParts[n \in 0 .. RefMax, lo \in 1 .. RefMax + 1] ==
    IF n = 0 THEN { << >> }
    ELSE UNION { { << a >> \o rest : rest \in AscParts[n - a, a] } : a \in lo .. n }

\* The partition that follows p in lexicographic order among those of n.
HasNextPart(p, n) == \E q \in AscParts[n, 1] : LexLess(p, q, IntLess)
RefNextPart(p, n) ==
    CHOOSE q \in AscParts[n, 1] :
        /\ LexLess(p, q, IntLess)
        /\ \A q2 \in AscParts[n, 1] :
               LexLess(p, q2, IntLess) => ~LexLess(q2, q, IntLess)

AllOnes(p) == \A i \in 1 .. Len(p) : p[i] = 1

\* The vertex (from 0) of the root of tree ti of component ci of code e:
\* vertices are numbered along the components, the trees and each tree code.
TreeStart(e, ci, ti) ==
    SumOf([i \in 1 .. ci - 1 |-> SizeOfComp(e[i])])
        + SumOf([i \in 1 .. ti - 1 |-> Len(e[ci][i])])

\* The position of the parent of position p > 1 in tree code t: the last
\* position before p whose subtree holds p.
ParentPos(t, p) ==
    CHOOSE q \in 1 .. p - 1 :
        /\ q + t[q] > p
        /\ \A q2 \in q + 1 .. p - 1 : q2 + t[q2] <= p

\* adj is the adjacency vector of the digraph that code e stands for.
IsAdjOf(adj, e) ==
    /\ Len(adj) = SizeOfFunc(e)
    /\ \A v \in 1 .. Len(adj) : adj[v] \in 0 .. Len(adj) - 1
    /\ \A ci \in 1 .. Len(e) : \A ti \in 1 .. Len(e[ci]) :
           /\ adj[TreeStart(e, ci, ti) + 1]
                  = TreeStart(e, ci, IF ti = Len(e[ci]) THEN 1 ELSE ti + 1)
           /\ \A p \in 2 .. Len(e[ci][ti]) :
                  adj[TreeStart(e, ci, ti) + p]
                      = TreeStart(e, ci, ti) + ParentPos(e[ci][ti], p) - 1

\* Every row of the n x n matrix m has exactly one true bit.
OneBitPerRow(m, n) ==
    /\ Len(m) = n * n
    /\ \A i \in 0 .. n - 1 :
           Cardinality({ j \in 0 .. n - 1 : m[i * n + j + 1] }) = 1

LastOut == out[Len(out)]

--------------------------------------------------------------------------
\* C1: neither generate_comps(n) nor generate_funcs(n) emits a code twice.
C1_NoDuplicateCodes ==
    \A i, j \in 1 .. Len(out) : i < j => out[i] # out[j]

C1_Witness ==
    /\ pc = "done"
    /\ ~args_connected
    /\ Len(out) >= 19

\* C2: for n >= 1 the codes generate_comps(n) emitted when next_comp returns
\* None are exactly the canonical component codes of n vertices, each
\* printed as a digraph of one component; the count returned is the number
\* emitted, 0 for n = 0, 1 for n = 1 and 2 for n = 2.
C2_CompsComplete ==
    (pc = "done" /\ args_connected) =>
        /\ \A i \in 1 .. Len(out) : Len(out[i]) = 1
        /\ args_size >= 1 =>
               { out[i][1] : i \in 1 .. Len(out) } = CanonComps[args_size]
        /\ count = Len(out)
        /\ args_size = 0 => count = 0
        /\ args_size = 1 => count = 1
        /\ args_size = 2 => count = 2

C2_Witness ==
    /\ pc = "done"
    /\ args_connected
    /\ args_size >= 4
    /\ count >= 9

\* C3: for n >= 1 every code generate_funcs(n) emits lists its components
\* by nondecreasing size, those of equal size in nondecreasing order of
\* generation by next_comp; when next_func returns None the multisets of
\* components of the codes emitted are exactly the multisets of canonical
\* component codes of n vertices in all; the count returned is the number
\* emitted, 1 for n = 1 and 3 for n = 2.
C3_FuncsComplete ==
    (~args_connected /\ args_size >= 1 /\ Len(out) > 0) =>
        /\ \A i \in 1 .. Len(LastOut) - 1 :
               /\ SizeOfComp(LastOut[i]) <= SizeOfComp(LastOut[i + 1])
               /\ SizeOfComp(LastOut[i]) = SizeOfComp(LastOut[i + 1])
                      => /\ GenRank(LastOut[i]) >= 0
                         /\ GenRank(LastOut[i]) <= GenRank(LastOut[i + 1])
        /\ pc = "done" =>
               /\ { BagOf(out[i]) : i \in 1 .. Len(out) } = RefBags[args_size]
               /\ count = Len(out)
               /\ args_size = 1 => count = 1
               /\ args_size = 2 => count = 3

C3_Witness ==
    /\ pc = "done"
    /\ ~args_connected
    /\ args_size >= 4
    /\ count >= 19
    /\ \E i \in 1 .. Len(out) :
           /\ Len(out[i]) = 2
           /\ out[i][1] = out[i][2]
           /\ Len(out[i][1]) = 1

\* C6: for every code emitted, func_adj gives a vector of length n with
\* entries in 0 .. n - 1 in which the root of each tree points to the root
\* of the next tree of its component (the last to the first) and every
\* other vertex to its parent; without ARGS.loopless every row of
\* adj_matrix has exactly one true bit.
C6_AdjacencyIsFunctional ==
    Len(out) > 0 =>
        /\ Len(line.adj) = args_size
        /\ IsAdjOf(line.adj, LastOut)
        /\ ~args_loopless => OneBitPerRow(line.matrix, Len(line.adj))

C6_Witness ==
    /\ Len(out) > 0
    /\ ~args_loopless
    /\ Len(LastOut) = 2
    /\ \E t \in Range(LastOut[2]) : Len(t) >= 3 /\ t[2] >= 2
    /\ Len(LastOut[1]) >= 2

\* C8 as stated: next_part returns None for the partition of all ones and
\* for every other partition the next one in lexicographic order.
C8_AsStated ==
    (np.called /\ args_size >= 1) =>
        IF AllOnes(np.p) THEN np.q = None
        ELSE /\ HasNextPart(np.p, args_size)
             /\ np.q = Some(RefNextPart(np.p, args_size))

\* C8, amended: every partition generate_funcs(n) passes to next_part is a
\* nondecreasing partition of n; next_part returns None for the partition
\* of one part, << n >>, and for every other one (the partition of all ones
\* included, for n >= 2) the next nondecreasing partition of n in
\* lexicographic order.
C8_NextPartition ==
    (np.called /\ args_size >= 1) =>
        /\ np.p \in AscParts[args_size, 1]
        /\ IF Len(np.p) = 1 THEN np.q = None
           ELSE /\ HasNextPart(np.p, args_size)
                /\ np.q = Some(RefNextPart(np.p, args_size))

C8_Witness ==
    /\ np.called
    /\ np.p = << 1, 3 >>
    /\ np.q = Some(<< 2, 2 >>)

\* C9: for every code generate_comps(n) emits, the loop of next_comp
\* executes its body at most twice.
C9_LoopAtMostTwice == args_connected => iters <= 2

C9_Witness ==
    /\ args_connected
    /\ iters = 2
    /\ pc = "comps"

--------------------------------------------------------------------------
\* C4: on every slice s, naive_is_min_rotation(s) and lcs_is_min_rotation(s)
\* return the same result, true exactly when no rotation of s is smaller
\* than s in lexicographic order; both return true for length 0 and 1.
C4_RotationTestsAgree ==
    /\ IsSome(rot.naive) => rot.naive[1] = Some(RefIsMinRotation(rot.s))
    /\ IsSome(rot.lcs) => rot.lcs[1] = Some(RefIsMinRotation(rot.s))
    /\ (IsSome(rot.naive) /\ IsSome(rot.lcs)) => rot.naive = rot.lcs
    /\ Len(rot.s) <= 1 => /\ rot.naive \in { None, Some(Some(TRUE)) }
                          /\ rot.lcs \in { None, Some(Some(TRUE)) }

\* What holds of the two tests: naive_is_min_rotation is right in every
\* build; lcs_is_min_rotation is right in a build without overflow checks
\* and on the empty slice, and panics on every other slice in a build with
\* overflow checks.
RotationTestsByBuild ==
    /\ IsSome(rot.naive) => rot.naive[1] = Some(RefIsMinRotation(rot.s))
    /\ IsSome(rot.lcs) =>
           IF overflow_checks /\ Len(rot.s) >= 1 THEN IsPanic(rot.lcs[1])
           ELSE rot.lcs[1] = Some(RefIsMinRotation(rot.s))

\* C5: for 0 <= n <= 255 int_to_ascii(n) is the one character n + 63 when
\* n < 63 and otherwise the character 126 followed by three characters,
\* each 63 plus one group of six bits of n written on 18 bits, the most
\* significant group first.
C5_VertexCountField ==
    IsSome(asc.str) =>
        asc.str[1] = IF asc.n < 63 THEN << asc.n + 63 >>
                     ELSE << 126,
                             63 + ((asc.n \div 4096) % 64),
                             63 + ((asc.n \div 64) % 64),
                             63 + (asc.n % 64) >>

\* C7 as stated: for a canonical component c of at least 2 trees with
\* unmerge(c) = (u, l, r), the merge of the sub-range u[l .. r + 1], that
\* is merge(u, l, r + 1), returns c.
C7_AsStated ==
    (lab.phase = "remerged" /\ Len(lab.c) >= 2 /\ RefIsMinRotation(lab.c)) =>
        /\ lab.re1_in_range
        /\ lab.re1 = Some(lab.c)

\* C7, amended: for a canonical component c of at least 2 trees with
\* unmerge(c) = (u, l, r), the merge of the sub-range u[l .. r], that is
\* merge(u, l, r), returns c whenever it returns (under ARGS.lcs in a build
\* with overflow checks its rotation test panics instead).
C7_RoundTrip ==
    (lab.phase = "remerged" /\ Len(lab.c) >= 2 /\ RefIsMinRotation(lab.c)) =>
        /\ ~IsPanic(lab.re) => lab.re = Some(lab.c)
        /\ IsPanic(lab.re) => (args_lcs /\ overflow_checks)

C7_Witness ==
    /\ lab.phase = "remerged"
    /\ Len(lab.c) >= 2
    /\ RefIsMinRotation(lab.c)
    /\ lab.um[1].l >= 1
    /\ lab.um[1].r >= lab.um[1].l + 3
    /\ lab.re = Some(lab.c)

\* C10: for every component c of valid trees and l + 2 <= r <= len(c), when
\* merge(c, l, r) returns a component m, m is its own minimal rotation and
\* unmerge(m) returns (c, l, r).
C10_MergeUnmerges ==
    /\ (lab.phase = "merged" /\ IsSome(lab.m)) => RefIsMinRotation(lab.m[1])
    /\ lab.phase = "merged_back" =>
           lab.back = Some([u |-> lab.c, l |-> lab.l, r |-> lab.r])

C10_Witness ==
    /\ lab.phase = "merged_back"
    /\ Len(lab.c) >= 4
    /\ lab.l >= 1
    /\ lab.r = lab.l + 3
    /\ lab.back = Some([u |-> lab.c, l |-> lab.l, r |-> lab.r])

==========================================================================
